---- MODULE Spec2Model ----
(***************************************************************************)
(* RectangleWin (src/main.go): the hotkey callbacks built in main(), the   *)
(* cycle state (lastResized, edgeFuncTurn), resize, moveToNextMonitor,     *)
(* maximize and the rectangle arithmetic they use.  The program keeps no   *)
(* rectangle: the Win32 calls are the environment, and every value they    *)
(* return (foreground window, its rectangle, the monitor list, success or  *)
(* failure of a call) is an input of the action.                           *)
(***************************************************************************)
EXTENDS Integers, Sequences, FiniteSets, TLC

\* ------------------------------------------------------------------ bounds
\* Largest turn index from which an edge hotkey is still pressed.
MaxTurn == 4
\* Number of top-level windows the foreground window is drawn from.
NumWindows == 2
\* Number of monitor handles the platform can report.
NumMonitors == 3

\* len(edgeFuncs): the five edge actions (hotkey ids 1, 2, 3, 4 and 51).
NumEdgeFuncs == 5
\* len(funcs[i]): every edge action has three variants.
NumVariants == 3

Windows == 1..NumWindows
MonitorHandles == 1..NumMonitors
EdgeActions == 0..(NumEdgeFuncs - 1)

\* w32.HWND(0): the NULL window, also the initial value of lastResized.
NULL == 0

VARIABLES
    lastResized,   \* var lastResized w32.HWND
    edgeFuncTurn,  \* edgeFuncTurn []int, one turn index per edge action
    crashed,       \* TRUE once a callback has panicked (the process is gone)
    turnWin,       \* history: window of the last edge invocation that ran the turn logic
    pending,       \* history: "clean" after maximize, "mon" once moveToNextMonitor recorded a window, "no" after an edge invocation
    last,          \* history: the last hotkey event and what it did
    place          \* history: the inputs and the result of one call of the placement arithmetic

vars == <<lastResized, edgeFuncTurn, crashed, turnWin, pending, last, place>>

\* ------------------------------------------------------ Go integer arithmetic
\* Go's / on integers truncates toward zero (divisor > 0 here).
GoDiv(a, b) == IF a >= 0 THEN a \div b ELSE -((-a) \div b)

\* Go's % takes the sign of the dividend.
GoRem(a, b) == a - b * GoDiv(a, b)

\* ------------------------------------------------------------- rectangles
RECT(l, t, r, b) == [Left |-> l, Top |-> t, Right |-> r, Bottom |-> b]

Width(r) == r.Right - r.Left

Height(r) == r.Bottom - r.Top

\* Faulty variant: divide, then multiply.
resizeForDpi_DivideFirst(src, from, to) ==
    RECT(GoDiv(src.Left, from) * to, GoDiv(src.Top, from) * to,
         GoDiv(src.Right, from) * to, GoDiv(src.Bottom, from) * to)

\* func resizeForDpi(src, from, to)
resizeForDpi(src, from, to) ==
    RECT(GoDiv(src.Left * to, from), GoDiv(src.Top * to, from),
         GoDiv(src.Right * to, from), GoDiv(src.Bottom * to, from))

\* Faulty variant: the offsets are rounded down instead of toward zero.
center_Floor(disp, cur) ==
    LET w == (Width(disp) - Width(cur)) \div 2
        h == (Height(disp) - Height(cur)) \div 2
    IN RECT(disp.Left + w, disp.Top + h,
            disp.Left + w + Width(cur), disp.Top + h + Height(cur))

\* Faulty variant: the right and bottom edges mirror the left and top ones.
center_Mirror(disp, cur) ==
    LET w == GoDiv(Width(disp) - Width(cur), 2)
        h == GoDiv(Height(disp) - Height(cur), 2)
    IN RECT(disp.Left + w, disp.Top + h, disp.Right - w, disp.Bottom - h)

\* func center(disp, cur)
center(disp, cur) ==
    LET w == GoDiv(Width(disp) - Width(cur), 2)
        h == GoDiv(Height(disp) - Height(cur), 2)
    IN RECT(disp.Left + w, disp.Top + h,
            disp.Left + w + Width(cur), disp.Top + h + Height(cur))

\* Faulty variant: the two pointers are compared, and they are never equal.
sameRect_Pointers(a, b) == FALSE

\* func sameRect(a, b): both pointers are non-nil at the two call sites.
sameRect(a, b) == a = b

\* The layout variants named in edgeFuncs.  Their bodies are in a file of the
\* repository other than main.go; they follow section 4.4 of the spec:
\* the given fraction of the work area along one axis, flush to that edge,
\* the full extent along the other axis, floor division.
ApplyLayout(f, disp, cur) ==
    LET W == Width(disp)
        H == Height(disp)
    IN CASE f = "leftHalf"        -> RECT(disp.Left, disp.Top, disp.Left + GoDiv(W, 2), disp.Top + H)
         [] f = "leftTwoThirds"   -> RECT(disp.Left, disp.Top, disp.Left + GoDiv(W * 2, 3), disp.Top + H)
         [] f = "leftOneThirds"   -> RECT(disp.Left, disp.Top, disp.Left + GoDiv(W, 3), disp.Top + H)
         [] f = "rightHalf"       -> RECT(disp.Left + GoDiv(W, 2), disp.Top, disp.Left + W, disp.Top + H)
         [] f = "rightTwoThirds"  -> RECT(disp.Left + GoDiv(W, 3), disp.Top, disp.Left + W, disp.Top + H)
         [] f = "rightOneThirds"  -> RECT(disp.Left + GoDiv(W * 2, 3), disp.Top, disp.Left + W, disp.Top + H)
         [] f = "topHalf"         -> RECT(disp.Left, disp.Top, disp.Left + W, disp.Top + GoDiv(H, 2))
         [] f = "topTwoThirds"    -> RECT(disp.Left, disp.Top, disp.Left + W, disp.Top + GoDiv(H * 2, 3))
         [] f = "topOneThirds"    -> RECT(disp.Left, disp.Top, disp.Left + W, disp.Top + GoDiv(H, 3))
         [] f = "bottomHalf"      -> RECT(disp.Left, disp.Top + GoDiv(H, 2), disp.Left + W, disp.Top + H)
         [] f = "bottomTwoThirds" -> RECT(disp.Left, disp.Top + GoDiv(H, 3), disp.Left + W, disp.Top + H)
         [] f = "bottomOneThirds" -> RECT(disp.Left, disp.Top + GoDiv(H * 2, 3), disp.Left + W, disp.Top + H)
         [] f = "middleThirds"    -> RECT(disp.Left + GoDiv(W, 3), disp.Top, disp.Left + GoDiv(W * 2, 3), disp.Top + H)

\* edgeFuncs := [][]resizeFunc{...}
edgeFuncs ==
    [i \in EdgeActions |->
        CASE i = 0 -> [v \in 0..2 |-> <<"leftHalf", "leftTwoThirds", "leftOneThirds">>[v + 1]]
          [] i = 1 -> [v \in 0..2 |-> <<"rightHalf", "rightTwoThirds", "rightOneThirds">>[v + 1]]
          [] i = 2 -> [v \in 0..2 |-> <<"topHalf", "topTwoThirds", "topOneThirds">>[v + 1]]
          [] i = 3 -> [v \in 0..2 |-> <<"bottomHalf", "bottomTwoThirds", "bottomOneThirds">>[v + 1]]
          [] i = 4 -> [v \in 0..2 |-> <<"leftOneThirds", "middleThirds", "rightOneThirds">>[v + 1]]]

\* ------------------------------------------------------------ the platform
\* Work area of a monitor (GetMonitorInfo's RcWork): monitors side by side.
ScreenW == 12
ScreenH == 6

WorkArea(m) == RECT((m - 1) * ScreenW, 0, m * ScreenW, ScreenH)

\* MonitorFromWindow(hwnd, MONITOR_DEFAULTTONEAREST): the monitor nearest to
\* the middle of the window's rectangle.
MonitorFromWindow(rect) ==
    LET k == ((rect.Left + rect.Right) \div 2) \div ScreenW + 1
    IN IF k < 1 THEN 1 ELSE IF k > NumMonitors THEN NumMonitors ELSE k

\* Win10 invisible resize border of a window, in pixels: left, right, bottom.
Border(w) == w % 2

\* DwmGetWindowAttributeEXTENDED_FRAME_BOUNDS: the visual frame inside rect.
DwmFrame(w, rect) ==
    RECT(rect.Left + Border(w), rect.Top, rect.Right - Border(w), rect.Bottom - Border(w))

\* GetDpiForWindow: the odd windows render at 96 dpi, the even ones at 144.
WindowDpi(w) == IF w % 2 = 1 THEN 96 ELSE 144

\* GetDeviceCaps(hdc, LOGPIXELSY): the system dpi.
DisplayDpi == 96

\* A coordinate of the DWM frame that resizeForDpi maps to t, for window w.
Unscaled(w, t) == IF WindowDpi(w) = DisplayDpi THEN t ELSE (3 * t + 1) \div 2

\* The outer rectangle of window w whose DPI-normalized frame is f.
OuterOf(w, f) ==
    RECT(Unscaled(w, f.Left) - Border(w), Unscaled(w, f.Top),
         Unscaled(w, f.Right) + Border(w), Unscaled(w, f.Bottom) + Border(w))

\* GetWindowRect: where window w can be when a hotkey arrives (the user and
\* other programs move windows between two hotkeys): floating on monitor 1,
\* already on the left half of monitor 1, or already centred on monitor 1.
WindowRects(w) ==
    {RECT(1, 1, 7, 5),
     OuterOf(w, RECT(0, 0, ScreenW \div 2, ScreenH)),
     OuterOf(w, RECT((ScreenW - 4) \div 2, (ScreenH - 3) \div 2,
                     (ScreenW - 4) \div 2 + 4, (ScreenH - 3) \div 2 + 3))}

\* Which platform call of one placement fails, if any.
Fails == {"none", "ReleaseDC", "GetMonitorInfo", "Dwm", "ShowWindow", "SetWindowPos"}

QueryFails == {"ReleaseDC", "GetMonitorInfo", "Dwm"}

\* EnumMonitors: every order of every set of distinct monitor handles.
MonitorLists ==
    {s \in UNION {[1..n -> MonitorHandles] : n \in 0..NumMonitors} :
        \A a, b \in DOMAIN s : a # b => s[a] # s[b]}

\* EnumMonitors with n monitors attached, in the platform's own order.
AttachedMonitors == {[k \in 1..n |-> k] : n \in 0..NumMonitors}

\* ------------------------------------------------------------------ resize
\* Result of one placement: outcome, the error flag, the new value of
\* lastResized, and the rectangle computed for SetWindowPos.
Outcome(res, err, lr, newPos) ==
    [res |-> res, err |-> err, last |-> lr, newPos |-> newPos]

\* Faulty variant: the extents are added on the left and top and subtracted
\* on the right and bottom.
borderCorrect_Inward(target, rect, resizedFrame) ==
    RECT(target.Left + (resizedFrame.Left - rect.Left),
         target.Top + (resizedFrame.Top - rect.Top),
         target.Right - (rect.Right - resizedFrame.Right),
         target.Bottom - (rect.Bottom - resizedFrame.Bottom))

\* lExtra, rExtra, tExtra, bExtra and the four adjustments of newPos:
\* the same lines in resize and in moveToNextMonitor.
borderCorrect(target, rect, resizedFrame) ==
    LET lExtra == resizedFrame.Left - rect.Left
        rExtra == -resizedFrame.Right + rect.Right
        tExtra == resizedFrame.Top - rect.Top
        bExtra == -resizedFrame.Bottom + rect.Bottom
    IN RECT(target.Left - lExtra, target.Top - tExtra,
            target.Right + rExtra, target.Bottom + bExtra)

\* newPos of resize, from the values the platform returned.
resizeNewPos(f, rcWork, rect, frame, windowDPI, displayDPI) ==
    LET resizedFrame == resizeForDpi(frame, windowDPI, displayDPI)
    IN borderCorrect(ApplyLayout(f, rcWork, resizedFrame), rect, resizedFrame)

\* The returns of resize and moveToNextMonitor in the order of the code, and
\* lastResized = hwnd once newPos is computed.
placeOutcome(lr, hwnd, rect, newPos, zon, fail) ==
    IF ~zon THEN Outcome("notzonable", FALSE, lr, rect)
    ELSE IF fail \in QueryFails THEN Outcome("queryfailed", TRUE, lr, rect)
    ELSE IF sameRect(rect, newPos) THEN Outcome("noop", FALSE, hwnd, newPos)
    ELSE IF fail \in {"ShowWindow", "SetWindowPos"}
         THEN Outcome("movefailed", TRUE, hwnd, newPos)
    ELSE Outcome("moved", FALSE, hwnd, newPos)

\* func resize(hwnd, f) (bool, error) with every platform value given:
\* rcWork is monInfo.RcWork, frame the DWM extended frame bounds.
resizeOn(lr, hwnd, f, rcWork, rect, frame, zon, fail, windowDPI, displayDPI) ==
    placeOutcome(lr, hwnd, rect,
                 resizeNewPos(f, rcWork, rect, frame, windowDPI, displayDPI), zon, fail)

\* func resize(hwnd, f) (bool, error); lr is lastResized on entry, rect is
\* GetWindowRect(hwnd), zon is isZonableWindow(hwnd).
resize(lr, hwnd, f, rect, zon, fail, windowDPI, displayDPI) ==
    resizeOn(lr, hwnd, f, WorkArea(MonitorFromWindow(rect)), rect, DwmFrame(hwnd, rect),
             zon, fail, windowDPI, displayDPI)

\* ------------------------------------------------------- moveToNextMonitor
\* func modNeg(v, m): m = 0 is a division by zero, guarded by the caller below.
modNeg(v, m) == GoRem(GoRem(v, m) + m, m)

\* The EnumMonitors callback: monitorIndex is the index at which d == mon,
\* and stays 0 when no enumerated monitor is mon.
monitorIndexOf(monitors, mon) ==
    IF \E k \in DOMAIN monitors : monitors[k] = mon
    THEN (CHOOSE k \in DOMAIN monitors : monitors[k] = mon) - 1
    ELSE 0

\* Faulty variant: the next monitor instead of the previous one.
nextMonitor_Forward(monitors, mon) ==
    monitors[modNeg(monitorIndexOf(monitors, mon) + 1, Len(monitors)) + 1]

\* mon = monitors[modNeg(monitorIndex-1, len(monitors))]  (0-based index)
nextMonitor(monitors, mon) ==
    monitors[modNeg(monitorIndexOf(monitors, mon) - 1, Len(monitors)) + 1]

\* newPos of moveToNextMonitor; rcWork is the work area of the target monitor.
moveNewPos(rcWork, rect, frame, windowDPI, displayDPI) ==
    LET resizedFrame == resizeForDpi(frame, windowDPI, displayDPI)
    IN borderCorrect(center(rcWork, resizedFrame), rect, resizedFrame)

\* func moveToNextMonitor(hwnd) (bool, error) with every platform value given.
moveOn(lr, hwnd, rcWork, rect, frame, zon, fail, windowDPI, displayDPI) ==
    placeOutcome(lr, hwnd, rect,
                 moveNewPos(rcWork, rect, frame, windowDPI, displayDPI), zon, fail)

\* Faulty variant: lastResized is left as it was.
moveToNextMonitor_NoRecord(lr, hwnd, monitors, rect, zon, fail, windowDPI, displayDPI) ==
    [moveOn(lr, hwnd, WorkArea(nextMonitor(monitors, MonitorFromWindow(rect))), rect,
            DwmFrame(hwnd, rect), zon, fail, windowDPI, displayDPI) EXCEPT !.last = lr]

\* func moveToNextMonitor(hwnd) (bool, error); len(monitors) > 0 here, the
\* empty enumeration panics in the callback (see MoveMonitorHotKey).
moveToNextMonitor(lr, hwnd, monitors, rect, zon, fail, windowDPI, displayDPI) ==
    moveOn(lr, hwnd, WorkArea(nextMonitor(monitors, MonitorFromWindow(rect))), rect,
           DwmFrame(hwnd, rect), zon, fail, windowDPI, displayDPI)

\* ---------------------------------------------------------------- maximize
\* func maximize() error: TRUE when it returns an error.  isZonableWindow
\* is false of the NULL window.
maximizeErr(hwnd, zon, showOk) == hwnd = NULL \/ ~zon \/ ~showOk

\* lastResized = 0 // cause edgeFuncTurn to be reset   (hotkey id 50)
maximizeLastResized(lr) == NULL

\* -------------------------------------------------------------- cycleFuncs
ZeroTurns == [j \in EdgeActions |-> 0]

\* if lastResized != hwnd { *turns = make([]int, len(edgeFuncs)) }
resetTurns(turns, lr, hwnd) == IF lr # hwnd THEN ZeroTurns ELSE turns

\* (*turns)[i] % len(funcs[i])
variantIndex(turns, i) == GoRem(turns[i], NumVariants)

\* Faulty variant: the increment without the loop that zeroes the others.
advanceTurns_NoReset(turns, i) == [turns EXCEPT ![i] = @ + 1]

\* Faulty variant: the loop starts at i + 1 and zeroes only the later turns.
advanceTurns_ResetAfter(turns, i) ==
    [j \in EdgeActions |-> IF j > i THEN 0 ELSE IF j = i THEN turns[j] + 1 ELSE turns[j]]

\* (*turns)[i]++ and the loop that zeroes every other turn
advanceTurns(turns, i) == [j \in EdgeActions |-> IF j # i THEN 0 ELSE turns[j] + 1]

\* Faulty variant: the turn logic runs whatever resize returned.
turnsAfter_IgnoreErr(turns, i, err) == advanceTurns(turns, i)

\* if _, err := resize(...); err != nil { return }, else the turn logic
turnsAfter(turns, i, err) == IF err THEN turns ELSE advanceTurns(turns, i)

\* ----------------------------------------------------------------- history
NoMons == <<>>

\* One hotkey event: which callback ran (kind, act), the foreground window,
\* the variant selected and the outcome.  For an edge event also, all taken
\* after the same-window check and before resize: the fired action's turn
\* index (pre), whether another action's index was non-zero (others),
\* whether the window differs from the one of the edge event before (fresh),
\* the value of pending, and how the event relates to the event before it
\* (rep, pv).  For move-to-monitor the enumeration, the host monitor and the
\* target chosen.
Event(kind, act, hwnd, variant, res, pre, others, fresh, pend, rep, pv, mons, host, target) ==
    [kind |-> kind, act |-> act, hwnd |-> hwnd, variant |-> variant, res |-> res,
     pre |-> pre, others |-> others, fresh |-> fresh, pend |-> pend,
     rep |-> rep, pv |-> pv, mons |-> mons, host |-> host, target |-> target]

\* An event of a callback that runs no turn logic.
Plain(kind, hwnd, res, mons, host, target) ==
    Event(kind, 0, hwnd, 0, res, 0, FALSE, FALSE, "no", "no", 0, mons, host, target)

NoEvent == Plain("none", NULL, "none", NoMons, 0, 0)

\* "ok"/"declined" when the event before was the same edge action on the same
\* window and returned no error (declined: without moving), else "no".
Repeat(i, hwnd) ==
    IF last.kind = "edge" /\ last.act = i /\ last.hwnd = hwnd
    THEN CASE last.res = "moved" -> "ok"
           [] last.res \in {"noop", "notzonable"} -> "declined"
           [] OTHER -> "no"
    ELSE "no"

\* Platform answers to one placement of window w that lead to different runs
\* of the code: not zonable (nothing else is asked); a query fails (the
\* rectangle is not compared); every query succeeds, with each rectangle the
\* window can have; the restore or the move of a floating window fails.
Answers(w) ==
    {[zon |-> FALSE, fail |-> "none", rect |-> RECT(1, 1, 7, 5)]}
    \cup {[zon |-> TRUE, fail |-> f, rect |-> RECT(1, 1, 7, 5)] : f \in Fails \ {"none"}}
    \cup {[zon |-> TRUE, fail |-> "none", rect |-> r] : r \in WindowRects(w)}

\* One call of the placement arithmetic: the values the platform returned
\* (rcWork, rect, frame, the two DPIs, zon, fail), the layout f, and what the
\* code computed from them (resizedFrame, target before the border
\* correction, newPos after it, the outcome res).
Placement(phase, f, rcWork, rect, frame, windowDPI, displayDPI, zon, fail, res, resizedFrame, target, newPos) ==
    [phase |-> phase, f |-> f, rcWork |-> rcWork, rect |-> rect, frame |-> frame,
     windowDPI |-> windowDPI, displayDPI |-> displayDPI, zon |-> zon, fail |-> fail,
     res |-> res, resizedFrame |-> resizedFrame, target |-> target, newPos |-> newPos]

ZeroRect == RECT(0, 0, 0, 0)

NoPlace ==
    Placement("none", "none", ZeroRect, ZeroRect, ZeroRect, 0, 0, FALSE, "none", "none",
              ZeroRect, ZeroRect, ZeroRect)

\* ------------------------------------------------------------------- state
Init ==
    /\ lastResized = NULL
    /\ edgeFuncTurn = ZeroTurns
    /\ crashed = FALSE
    /\ turnWin = NULL
    /\ pending = "no"
    /\ last = NoEvent
    /\ place = NoPlace

\* panic("foreground window is NULL"), or a runtime panic: the process dies.
Panic(kind, act, mons) ==
    /\ crashed' = TRUE
    /\ last' = Event(kind, act, NULL, 0, "panic", 0, FALSE, FALSE, "no", "no", 0, mons, 0, 0)
    /\ UNCHANGED <<lastResized, edgeFuncTurn, turnWin, pending, place>>

\* cycleFuncs := func(funcs, turns, i), called by hotkeys 1, 2, 3, 4 and 51
cycleFuncs(i, hwnd, rect, zon, fail) ==
    IF hwnd = NULL THEN Panic("edge", i, NoMons)
    ELSE
      LET turns1 == resetTurns(edgeFuncTurn, lastResized, hwnd)
          v == variantIndex(turns1, i)
          r == resize(lastResized, hwnd, edgeFuncs[i][v], rect, zon, fail,
                      WindowDpi(hwnd), DisplayDpi)
      IN /\ edgeFuncTurn' = turnsAfter(turns1, i, r.err)
         /\ lastResized' = r.last
         /\ turnWin' = hwnd
         /\ pending' = "no"
         /\ last' = Event("edge", i, hwnd, v, r.res, turns1[i],
                          \E j \in EdgeActions : j # i /\ turns1[j] # 0,
                          hwnd # turnWin, pending, Repeat(i, hwnd),
                          IF Repeat(i, hwnd) = "no" THEN 0 ELSE last.variant,
                          NoMons, 0, 0)
         /\ UNCHANGED <<crashed, place>>

\* An edge hotkey (ids 1, 2, 3, 4, 51) is pressed.
EdgeHotKey ==
    /\ ~crashed
    /\ \E i \in EdgeActions :
        /\ edgeFuncTurn[i] < MaxTurn
        /\ \/ cycleFuncs(i, NULL, RECT(0, 0, 0, 0), FALSE, "none")
           \/ \E hwnd \in Windows :
                \E a \in Answers(hwnd) : cycleFuncs(i, hwnd, a.rect, a.zon, a.fail)

\* Hotkey id 50: maximize.
MaximizeHotKey ==
    /\ ~crashed
    /\ \E hwnd \in Windows \cup {NULL}, zon \in BOOLEAN, showOk \in BOOLEAN :
        LET err == maximizeErr(hwnd, zon, showOk)
        IN /\ lastResized' = maximizeLastResized(lastResized)
           /\ pending' = "clean"
           /\ last' = Plain("max", hwnd, IF err THEN "error" ELSE "maximized", NoMons, 0, 0)
           /\ UNCHANGED <<edgeFuncTurn, crashed, turnWin, place>>

\* The callback of hotkey id 52 for a non-NULL foreground window; rec says
\* whether the history keeps the enumeration, the host and the target.
onMoveMonitor(hwnd, monitors, rect, zon, fail, rec) ==
    IF zon /\ Len(monitors) = 0 THEN Panic("mon", 0, IF rec THEN monitors ELSE NoMons)
    ELSE
      LET r == moveToNextMonitor(lastResized, hwnd, monitors, rect, zon, fail,
                                 WindowDpi(hwnd), DisplayDpi)
          sel == rec /\ zon
      IN /\ lastResized' = r.last
         /\ pending' = IF r.res \in {"noop", "movefailed", "moved"} /\ pending = "clean"
                       THEN "mon" ELSE pending
         /\ last' = Plain("mon", hwnd, r.res,
                          IF sel THEN monitors ELSE NoMons,
                          IF sel THEN MonitorFromWindow(rect) ELSE 0,
                          IF sel THEN nextMonitor(monitors, MonitorFromWindow(rect)) ELSE 0)
         /\ UNCHANGED <<edgeFuncTurn, crashed, turnWin, place>>

\* Hotkey id 52: move to the adjacent monitor.
MoveMonitorHotKey ==
    /\ ~crashed
    /\ \/ Panic("mon", 0, NoMons)
       \/ \E hwnd \in Windows :
            \E a \in Answers(hwnd) :
                IF a.zon
                THEN \E monitors \in AttachedMonitors :
                        onMoveMonitor(hwnd, monitors, a.rect, TRUE, a.fail, FALSE)
                ELSE onMoveMonitor(hwnd, NoMons, a.rect, FALSE, a.fail, FALSE)

Next == EdgeHotKey \/ MaximizeHotKey \/ MoveMonitorHotKey

\* Any sequence of hotkeys with any platform answers.
Spec == Init /\ [][Next]_vars

\* Hotkey id 52 with no platform query failing, for every order of every
\* enumeration; the history keeps the monitors it chose among.
MoveMonitorSelect ==
    /\ ~crashed
    /\ \/ Panic("mon", 0, NoMons)
       \/ \E hwnd \in Windows :
            \E a \in {x \in Answers(hwnd) : x.fail \notin QueryFails} :
                IF a.zon
                THEN \E monitors \in MonitorLists :
                        onMoveMonitor(hwnd, monitors, a.rect, TRUE, a.fail, TRUE)
                ELSE onMoveMonitor(hwnd, NoMons, a.rect, FALSE, a.fail, TRUE)

NextMonitor == MoveMonitorSelect \/ MaximizeHotKey

\* The move-to-monitor and maximize hotkeys alone.
SpecMonitor == Init /\ [][NextMonitor]_vars

\* ------------------------------------------- the placement arithmetic alone
\* Largest invisible border of a window, in pixels.
MaxBorder == 1

\* The thirteen layout variants of edgeFuncs.
Layouts == {edgeFuncs[i][v] : i \in EdgeActions, v \in 0..(NumVariants - 1)}

\* GetDpiForWindow and GetDeviceCaps(LOGPIXELSY): 100% and 150% scaling.
DpiValues == {96, 144}

\* monInfo.RcWork of the monitor asked.
WorkAreas == {WorkArea(m) : m \in MonitorHandles}

\* GetWindowRect: outer rectangles, some left of the primary monitor.
OuterRects ==
    {RECT(l, t, l + w, t + h) : l \in {-2, 0, 3}, t \in {0, 1}, w \in {6, 10}, h \in {4, 6}}

\* The visual frame inside an outer rectangle: bs pixels of invisible border
\* left, right and below, bt pixels above.
Inset(rect, bs, bt) == RECT(rect.Left + bs, rect.Top + bt, rect.Right - bs, rect.Bottom - bs)

\* What the platform returns to one call of resize or moveToNextMonitor.
PlaceInputs ==
    {Placement("input", "none", rcWork, rect, Inset(rect, bs, bt), wd, dd, TRUE, "none",
               "none", ZeroRect, ZeroRect, ZeroRect) :
        rcWork \in WorkAreas, rect \in OuterRects, bs \in 0..MaxBorder, bt \in 0..MaxBorder,
        wd \in DpiValues, dd \in DpiValues}

\* isZonableWindow and the platform call that fails, if any.
PlaceAnswers ==
    {[zon |-> FALSE, fail |-> "none"]} \cup {[zon |-> TRUE, fail |-> f] : f \in Fails}

InitPlace ==
    /\ lastResized = NULL
    /\ edgeFuncTurn = ZeroTurns
    /\ crashed = FALSE
    /\ turnWin = NULL
    /\ pending = "no"
    /\ last = NoEvent
    /\ place \in PlaceInputs

\* resize(hwnd, f) on window 1 with the values of place.
ResizeCall ==
    /\ place.phase = "input"
    /\ \E f \in Layouts, a \in PlaceAnswers :
        LET r == resizeOn(lastResized, 1, f, place.rcWork, place.rect, place.frame,
                          a.zon, a.fail, place.windowDPI, place.displayDPI)
            rf == resizeForDpi(place.frame, place.windowDPI, place.displayDPI)
        IN /\ place' = [place EXCEPT !.phase = "resize", !.f = f, !.zon = a.zon,
                                      !.fail = a.fail, !.res = r.res, !.resizedFrame = rf,
                                      !.target = ApplyLayout(f, place.rcWork, rf),
                                      !.newPos = r.newPos]
           /\ lastResized' = r.last
    /\ UNCHANGED <<edgeFuncTurn, crashed, turnWin, pending, last>>

\* resize(hwnd, f) once more with the same f, after SetWindowPos has made
\* newPos the outer rectangle: the frame keeps its distance to the outer
\* rectangle, monitor and DPIs are the same, every call succeeds.
ResizeAgain ==
    /\ place.phase = "resize"
    /\ place.res = "moved"
    /\ LET rect == place.newPos
           frame == RECT(rect.Left + (place.frame.Left - place.rect.Left),
                         rect.Top + (place.frame.Top - place.rect.Top),
                         rect.Right - (place.rect.Right - place.frame.Right),
                         rect.Bottom - (place.rect.Bottom - place.frame.Bottom))
           r == resizeOn(lastResized, lastResized, place.f, place.rcWork, rect, frame,
                         TRUE, "none", place.windowDPI, place.displayDPI)
           rf == resizeForDpi(frame, place.windowDPI, place.displayDPI)
       IN /\ place' = [place EXCEPT !.phase = "again", !.rect = rect, !.frame = frame,
                                     !.res = r.res, !.resizedFrame = rf,
                                     !.target = ApplyLayout(place.f, place.rcWork, rf),
                                     !.newPos = r.newPos]
          /\ lastResized' = r.last
    /\ UNCHANGED <<edgeFuncTurn, crashed, turnWin, pending, last>>

\* moveToNextMonitor(hwnd) on window 1; place.rcWork is the work area of the
\* monitor selected.
MoveCall ==
    /\ place.phase = "input"
    /\ \E a \in PlaceAnswers :
        LET r == moveOn(lastResized, 1, place.rcWork, place.rect, place.frame,
                        a.zon, a.fail, place.windowDPI, place.displayDPI)
            rf == resizeForDpi(place.frame, place.windowDPI, place.displayDPI)
        IN /\ place' = [place EXCEPT !.phase = "move", !.f = "center", !.zon = a.zon,
                                      !.fail = a.fail, !.res = r.res, !.resizedFrame = rf,
                                      !.target = center(place.rcWork, rf),
                                      !.newPos = r.newPos]
           /\ lastResized' = r.last
    /\ UNCHANGED <<edgeFuncTurn, crashed, turnWin, pending, last>>

NextPlace == ResizeCall \/ ResizeAgain \/ MoveCall

\* One placement (and its repetition) for every platform input.
SpecPlace == InitPlace /\ [][NextPlace]_vars

\* --------------------------------------------------- the pure functions alone
\* Largest absolute value of the left and top coordinates drawn.
MaxCoord == 7

\* Rectangles with positive, zero and negative coordinates, empty ones too.
ArithRects ==
    {RECT(l, t, l + w, t + h) :
        l \in (-MaxCoord)..MaxCoord, t \in (-MaxCoord)..MaxCoord, w \in {0, 3, 8, 13}, h \in {2, 7}}

\* Containers of even and of odd size.
Containers == {RECT(0, 0, ScreenW, ScreenH), RECT(-5, -3, 2, 2)}

InitArith ==
    /\ lastResized = NULL
    /\ edgeFuncTurn = ZeroTurns
    /\ crashed = FALSE
    /\ turnWin = NULL
    /\ pending = "no"
    /\ last = NoEvent
    /\ place \in {Placement("input", "none", c, r, ZeroRect, 0, 0, FALSE, "none", "none",
                             ZeroRect, ZeroRect, ZeroRect) : c \in Containers, r \in ArithRects}

\* resizeForDpi(resizeForDpi(r, 100, 150), 150, 100)
RoundTrip ==
    /\ place.phase = "input"
    /\ place' = [place EXCEPT !.phase = "roundtrip", !.windowDPI = 100, !.displayDPI = 150,
                               !.resizedFrame = resizeForDpi(place.rect, 100, 150),
                               !.newPos = resizeForDpi(resizeForDpi(place.rect, 100, 150), 150, 100)]
    /\ UNCHANGED <<lastResized, edgeFuncTurn, crashed, turnWin, pending, last>>

\* center(container, subject)
CenterCall ==
    /\ place.phase = "input"
    /\ place' = [place EXCEPT !.phase = "center", !.f = "center",
                               !.newPos = center(place.rcWork, place.rect)]
    /\ UNCHANGED <<lastResized, edgeFuncTurn, crashed, turnWin, pending, last>>

NextArith == RoundTrip \/ CenterCall

\* resizeForDpi and center applied to every rectangle drawn.
SpecArith == InitArith /\ [][NextArith]_vars

\* ================================================================== claims
\* The last event is an edge action that got past the NULL check.
EdgeRan == last.kind = "edge" /\ last.res # "panic"

\* The outcomes of resize that return no error.
NoError == {"moved", "noop", "notzonable"}

\* C1: consecutive invocations of one edge action on one window, each
\* returning no error, select the variants 0, 1, 2, 0, ...: an invocation
\* right after a no-error invocation of the same action on the same window
\* selects the variant after the one selected then.
C1_CycleRotation ==
    (EdgeRan /\ last.rep # "no" /\ last.res \in NoError)
        => last.variant = (last.pv + 1) % NumVariants

\* C2: when resize declines to move (no-op, or window not placeable) the
\* fired action's turn index is not incremented, and the next press of the
\* same action on the same window selects the same variant again.
C2_DeclinedKeepsTurn ==
    /\ (EdgeRan /\ last.res \in {"noop", "notzonable"})
            => edgeFuncTurn[last.act] = last.pre
    /\ (EdgeRan /\ last.rep = "declined") => last.variant = last.pv

\* C3: an edge action fired against a window other than the one the turn
\* indices were computed against finds every turn index zero when it selects
\* its variant, and so selects variant 0.
C3_CrossWindowReset ==
    (EdgeRan /\ last.fresh) => (last.variant = 0 /\ last.pre = 0 /\ ~last.others)

\* C4, as stated: after any invocation of an edge action on the window on
\* which another action had advanced, every action other than the one fired
\* has turn index 0.
C4_OthersZeroAfterAnyInvocation ==
    (EdgeRan /\ ~last.fresh /\ last.others)
        => \A j \in EdgeActions : j # last.act => edgeFuncTurn[j] = 0

\* C4, amended: after an invocation of an edge action whose resize returned
\* no error, every action other than the one fired has turn index 0.
C4_OthersZeroAfterNoError ==
    (EdgeRan /\ last.res \in NoError)
        => \A j \in EdgeActions : j # last.act => edgeFuncTurn[j] = 0

\* Another action had advanced on this window, this one moved the window, and
\* the other action's index is back to 0.
C4_Witness ==
    /\ EdgeRan /\ ~last.fresh /\ last.others /\ last.res = "moved"
    /\ \A j \in EdgeActions : j # last.act => edgeFuncTurn[j] = 0

\* C5: in every reachable state at most one edge action has a non-zero turn
\* index.
C5_AtMostOneTurn == Cardinality({j \in EdgeActions : edgeFuncTurn[j] # 0}) <= 1

\* An edge action failed while another action's index was non-zero, and that
\* index is still the only non-zero one.
C5_Witness ==
    /\ EdgeRan /\ last.others /\ last.res \in {"queryfailed", "movefailed"}
    /\ \E j \in EdgeActions : j # last.act /\ edgeFuncTurn[j] >= 2

\* C6: after every place invocation on window w (edge action or
\* move-to-monitor), whatever its outcome, lastResized is w.
C6_LastResizedRecorded ==
    (last.kind \in {"edge", "mon"} /\ last.res # "panic") => lastResized = last.hwnd

\* C7: maximize sets lastResized to 0 whether or not it succeeds,
\* and the next edge action fired afterwards finds every turn index zero and
\* selects variant 0.
C7_NextEdgeAfterMaximize ==
    /\ last.kind = "max" => lastResized = NULL
    /\ (EdgeRan /\ last.pend # "no")
            => (last.variant = 0 /\ last.pre = 0 /\ ~last.others)

\* C8: no hotkey callback ever crashes the process.
C8_NeverCrashes == ~crashed

\* Position (from 1) of the host monitor in the enumeration of event e.
HostPos(e) == CHOOSE k \in DOMAIN e.mons : e.mons[k] = e.host

\* The event is a move-to-monitor that enumerated the host monitor.
HostListed(e) ==
    e.kind = "mon" /\ e.res # "panic" /\ \E k \in DOMAIN e.mons : e.mons[k] = e.host

\* C9: with the host monitor at index i of the N monitors enumerated, the
\* target is the monitor at index (i - 1) mod N, an index in 0..N-1.
C9_PreviousMonitor ==
    HostListed(last) =>
        LET N == Len(last.mons)
            t == (HostPos(last) - 1 - 1) % N
        IN t \in 0..(N - 1) /\ last.target = last.mons[t + 1]

\* Three monitors, the host enumerated first: the window went to the third.
C9_Witness ==
    /\ HostListed(last) /\ Len(last.mons) = 3 /\ HostPos(last) = 1
    /\ last.target = last.mons[3] /\ last.res = "moved"

\* C10: when the host monitor is not among the monitors enumerated,
\* move-to-monitor selects no target and issues no restore/move request.
C10_StaleHandleRejected ==
    (last.kind = "mon" /\ last.res # "panic" /\ last.mons # NoMons /\ ~HostListed(last))
        => (last.target = 0 /\ last.res \notin {"moved", "movefailed", "noop"})

\* C11: when resize fails with a platform error (a query fails, or the
\* restore or the move is rejected) the invocation leaves every turn index
\* as it was after the same-window check: the fired action's index is not
\* incremented and no other index is reset.
C11_ErrorKeepsTurns ==
    [][(last'.kind = "edge" /\ last'.res \in {"queryfailed", "movefailed"})
        => edgeFuncTurn' = resetTurns(edgeFuncTurn, lastResized, last'.hwnd)]_vars

\* A query failed on the third press of an action on the window of its
\* cycle: the index is still 2.
C11_Witness ==
    /\ EdgeRan /\ last.res = "queryfailed" /\ ~last.fresh
    /\ last.pre = 2 /\ edgeFuncTurn[last.act] = 2

\* A call of resize or moveToNextMonitor has run on the values of place.
Placed == place.phase \in {"resize", "again", "move"}

\* The call went on to ShowWindow / SetWindowPos (they succeeded or not).
Requested == Placed /\ place.res \in {"moved", "movefailed"}

\* Two rectangles differ in at least one coordinate.
Differ(a, b) ==
    a.Left # b.Left \/ a.Top # b.Top \/ a.Right # b.Right \/ a.Bottom # b.Bottom

\* C12: a restore/move request is emitted only if the window is placeable
\* and the border-corrected target differs from the current outer rectangle
\* in some coordinate; for a window that is not placeable, and when the
\* corrected target equals the outer rectangle, resize and moveToNextMonitor
\* return (false, nil) without calling ShowWindow or SetWindowPos.
C12_MoveOnlyWhenDifferent ==
    /\ Requested => (place.zon /\ Differ(place.newPos, place.rect))
    /\ (Placed /\ ~place.zon) => place.res = "notzonable"
    /\ (Placed /\ place.zon /\ place.fail \notin QueryFails
            /\ ~Differ(borderCorrect(place.target, place.rect, place.resizedFrame), place.rect))
         => place.res = "noop"

\* resize on a window that already has the rectangle of the layout, with
\* SetWindowPos set to fail: no request, no error.
C12_Witness ==
    /\ place.phase = "resize" /\ place.zon /\ place.fail = "SetWindowPos"
    /\ place.newPos = place.rect /\ place.res = "noop"

\* C13: when resize has moved a window and the platform made the requested
\* rectangle the outer rectangle, resize with the same layout computes that
\* rectangle again and requests no move, for every DPI pair and border.
C13_Idempotent ==
    place.phase = "again" => (place.res = "noop" /\ place.newPos = place.rect)

\* The call got as far as computing newPos.
Computed == Placed /\ place.res \in {"noop", "moved", "movefailed"}

\* The four border extents of the call: DPI-normalized frame against outer.
LeftExtra == place.resizedFrame.Left - place.rect.Left

RightExtra == place.rect.Right - place.resizedFrame.Right

TopExtra == place.resizedFrame.Top - place.rect.Top

BottomExtra == place.rect.Bottom - place.resizedFrame.Bottom

\* C14: the rectangle requested is the target with left and top decreased by
\* leftExtra and topExtra and right and bottom increased by rightExtra and
\* bottomExtra, so that insetting it by the extents gives the target back;
\* resize and moveToNextMonitor apply the same correction.
C14_BorderCorrection ==
    Computed =>
        /\ place.newPos = RECT(place.target.Left - LeftExtra, place.target.Top - TopExtra,
                               place.target.Right + RightExtra, place.target.Bottom + BottomExtra)
        /\ RECT(place.newPos.Left + LeftExtra, place.newPos.Top + TopExtra,
                place.newPos.Right - RightExtra, place.newPos.Bottom - BottomExtra) = place.target

\* moveToNextMonitor moved a window with one pixel of border on every side.
C14_Witness ==
    /\ place.phase = "move" /\ place.res = "moved"
    /\ LeftExtra = 1 /\ RightExtra = 1 /\ TopExtra = 1 /\ BottomExtra = 1
    /\ place.newPos.Left = place.target.Left - 1
    /\ place.newPos.Bottom = place.target.Bottom + 1

\* C15: when the visual frame the platform reports equals the outer
\* rectangle (no invisible border) the four extents are zero and the
\* rectangle requested is the layout's target, for every DPI pair.
C15_ZeroBorderNoCorrection ==
    (Computed /\ place.frame = place.rect) =>
        /\ LeftExtra = 0 /\ RightExtra = 0 /\ TopExtra = 0 /\ BottomExtra = 0
        /\ place.newPos = place.target

\* C16: every rectangle requested for a window has right >= left and
\* bottom >= top.
C16_WellFormedRequest ==
    Requested =>
        (place.newPos.Right >= place.newPos.Left /\ place.newPos.Bottom >= place.newPos.Top)

\* |a - b| <= 1
Near(a, b) == a - b \in {-1, 0, 1}

\* q is n / d truncated toward zero (d > 0).
Truncated(q, n, d) ==
    IF n >= 0 THEN q * d <= n /\ n < (q + 1) * d
    ELSE q * d >= n /\ n > (q - 1) * d

\* C17: resizeForDpi(resizeForDpi(r, 100, 150), 150, 100) differs from r by
\* at most 1 in each coordinate, each rescale being coordinate * to / from
\* with the product first and a truncating division.
C17_DpiRoundTrip ==
    place.phase = "roundtrip" =>
        /\ Near(place.newPos.Left, place.rect.Left)
        /\ Near(place.newPos.Top, place.rect.Top)
        /\ Near(place.newPos.Right, place.rect.Right)
        /\ Near(place.newPos.Bottom, place.rect.Bottom)
        /\ Truncated(place.resizedFrame.Left, place.rect.Left * 150, 100)
        /\ Truncated(place.resizedFrame.Bottom, place.rect.Bottom * 150, 100)
        /\ Truncated(place.newPos.Left, place.resizedFrame.Left * 100, 150)
        /\ Truncated(place.newPos.Bottom, place.resizedFrame.Bottom * 100, 150)

\* A negative and a positive coordinate that each come back one off.
C17_Witness ==
    /\ place.phase = "roundtrip"
    /\ place.rect.Left = -3 /\ place.newPos.Left = -2
    /\ place.rect.Bottom = 5 /\ place.newPos.Bottom = 4

\* C18: center(container, subject) has the width and height of subject, its
\* top-left is container's top-left plus half the difference of the widths
\* and of the heights, truncated toward zero; the left and right margins
\* differ by at most 1, as do the top and bottom ones, also when they are
\* negative.
C18_Center ==
    place.phase = "center" =>
        LET c == place.rcWork
            o == place.newPos
        IN /\ Width(o) = Width(place.rect) /\ Height(o) = Height(place.rect)
           /\ Truncated(o.Left - c.Left, Width(c) - Width(place.rect), 2)
           /\ Truncated(o.Top - c.Top, Height(c) - Height(place.rect), 2)
           /\ Near(o.Left - c.Left, c.Right - o.Right)
           /\ Near(o.Top - c.Top, c.Bottom - o.Bottom)

\* A subject one pixel wider and two pixels higher than the container: the
\* margins are 0 and -1, -1 and -1.
C18_Witness ==
    /\ place.phase = "center"
    /\ Width(place.rcWork) - Width(place.rect) = -1
    /\ Height(place.rcWork) - Height(place.rect) = -2
    /\ place.newPos.Left = place.rcWork.Left
    /\ place.rcWork.Right - place.newPos.Right = -1
    /\ place.newPos.Top = place.rcWork.Top - 1

\* C20: the rectangle moveToNextMonitor requests has the width and the
\* height of the window's outer rectangle, for every frame, work area and
\* DPI pair.
C20_MoveKeepsSize ==
    (place.phase = "move" /\ Computed) =>
        (Width(place.newPos) = Width(place.rect) /\ Height(place.newPos) = Height(place.rect))

\* A window with a border, at a DPI other than the display's, moved to
\* another place with its size.
C20_Witness ==
    /\ place.phase = "move" /\ place.res = "moved"
    /\ place.windowDPI # place.displayDPI /\ place.frame # place.rect
    /\ Width(place.resizedFrame) # Width(place.rect)
    /\ place.newPos.Left # place.rect.Left
    /\ Width(place.newPos) = Width(place.rect) /\ Height(place.newPos) = Height(place.rect)

\* C19: the move-to-monitor hotkey changes no turn index; of the cycle state
\* it changes only lastResized, which becomes the window once the window is
\* placeable and the queries have succeeded.  Hence an edge action on the
\* window of the cycle, right after a move-to-monitor on that window,
\* finds the turn indices as the cycle left them and selects the next
\* variant without a reset.
C19_MoveMonitorKeepsTurns ==
    [][/\ last'.kind = "mon" =>
            /\ edgeFuncTurn' = edgeFuncTurn
            /\ lastResized' = IF last'.res \in {"noop", "moved", "movefailed"}
                              THEN last'.hwnd ELSE lastResized
       /\ (/\ last.kind = "mon" /\ last.res # "panic" /\ lastResized = last.hwnd
           /\ last'.kind = "edge" /\ last'.hwnd = last.hwnd)
            => /\ last'.pre = edgeFuncTurn[last'.act]
               /\ last'.variant = edgeFuncTurn[last'.act] % NumVariants]_vars

\* A window two presses into a cycle was moved to another monitor: the
\* index is still 2 and lastResized is the window.
C19_Witness ==
    /\ last.kind = "mon" /\ last.res = "moved"
    /\ lastResized = last.hwnd /\ turnWin = last.hwnd
    /\ \E i \in EdgeActions : edgeFuncTurn[i] = 2

====
